---- MODULE Spec2Model ----
(***************************************************************************)
(* Convergence diagnostics of ArviZ: the helpers of stats/stats_utils.py   *)
(* (autocov, autocorr, make_ufunc, wrap_xarray_ufunc, logsumexp,           *)
(* check_nan, check_valid_size) and the estimators of                      *)
(* stats/diagnostics.py (rhat, ess, mcse, _mc_error, ks_summary) as the    *)
(* test-suite tests/test_diagnostics.py and the design document pin them.  *)
(*                                                                         *)
(* A behaviour is one call: Init draws the operation and its arguments,    *)
(* the operation's action applies it and stores what it returned, raised,  *)
(* warned or wrote into the caller's objects.  wrap_xarray_ufunc is called *)
(* several times in a row with the same argument objects.                  *)
(*                                                                         *)
(* Floating point values are modelled exactly: a float is an integer, a    *)
(* quotient is a pair num/den (0/0 is NaN, a/0 with a # 0 is infinite).    *)
(***************************************************************************)
EXTENDS Integers, Sequences, FiniteSets, TLC

VARIABLES pc, op, ary, seq, method, prob, relative, batches, axis, result, vec,
          batched, kcounts, warned,
          grid, gridout, mt2,
          ufunc_kwargs, func_args, func_kwargs, kwargs, calls,
          n_output, out, fail_at, func_calls, returned,
          shape, axis_arg, keepdims, b_weight, b_inv, res_shape

\* autocov and autocorr of a 2-D array: the array, the array returned and
\* the length of the zero-padded buffer.
acvars == <<grid, gridout, mt2>>

\* The arguments of wrap_xarray_ufunc as the caller holds them, and what
\* each call made with them used.
wrapvars == <<ufunc_kwargs, func_args, func_kwargs, kwargs, calls>>

\* A call of a ufunc built by make_ufunc: the n_output it was built with,
\* the caller's `out`, the element at which func raises (0: nowhere), the
\* number of times func was called and the arrays returned.
ufuncvars == <<n_output, out, fail_at, func_calls, returned>>

\* A call of logsumexp: the shape of ary, the axis argument (a record
\* [kind, val]: kind "None", "int" or "seq", val the integers given), the
\* keepdims flag, the weights b and b_inv ("None" or a number) and the shape
\* of the result (<<>> for a scalar).
lsevars == <<shape, axis_arg, keepdims, b_weight, b_inv, res_shape>>

utilvars == <<wrapvars, ufuncvars, lsevars>>

vars == <<pc, op, ary, seq, method, prob, relative, batches, axis, result, vec,
          batched, kcounts, warned, acvars, utilvars>>

(***************************************************************************)
(* Bounds of the model.                                                    *)
(***************************************************************************)
MaxChain == 2
MaxDraw == 7
MaxLen == 7
MaxSize == 5
MaxBatches == 5
MaxK == 3
MaxCalls == 3
MaxSide == 2
MaxLead == 3
MaxOutputs == 2
MaxNdim == 3
MaxDim == 2

(***************************************************************************)
(* Arithmetic helpers.                                                     *)
(***************************************************************************)
Abs(i) == IF i < 0 THEN -i ELSE i

RECURSIVE SumSeq(_)
SumSeq(s) == IF s = <<>> THEN 0 ELSE Head(s) + SumSeq(Tail(s))

RECURSIVE Flatten(_)
Flatten(rows) == IF rows = <<>> THEN <<>> ELSE Head(rows) \o Flatten(Tail(rows))

RECURSIVE Insert(_, _)
Insert(s, e) ==
    IF s = <<>> THEN <<e>>
    ELSE IF e <= Head(s) THEN <<e>> \o s
    ELSE <<Head(s)>> \o Insert(Tail(s), e)

RECURSIVE Sorted(_)
Sorted(s) == IF s = <<>> THEN <<>> ELSE Insert(Sorted(Tail(s)), Head(s))

(***************************************************************************)
(* Floats and arrays.  An element is a number or NaN; an array is 1-D      *)
(* (one row) or 2-D (chain x draw).                                        *)
(***************************************************************************)
NaN == [nan |-> TRUE, v |-> 0]
Num(n) == [nan |-> FALSE, v |-> n]

Values(row) == [i \in 1..Len(row) |-> row[i].v]

n_chain(a) == IF a.ndim = 1 THEN 1 ELSE Len(a.data)
n_draw(a) == Len(a.data[1])

\* Rows of numbers of a NaN-free array.
Rows(a) == [c \in 1..Len(a.data) |-> Values(a.data[c])]

(***************************************************************************)
(* What a call gave back.  kind is "none" before the call, "nan", "inf",   *)
(* "value" (a finite number the model does not compute), "exact" (the      *)
(* number num/den) or the name of the exception raised.                    *)
(***************************************************************************)
NoResult == [kind |-> "none", num |-> 0, den |-> 1]
NanResult == [kind |-> "nan", num |-> 0, den |-> 0]
InfResult == [kind |-> "inf", num |-> 1, den |-> 0]
NegInfResult == [kind |-> "-inf", num |-> -1, den |-> 0]
ValueResult == [kind |-> "value", num |-> 0, den |-> 1]
Exact(a, b) == [kind |-> "exact", num |-> a, den |-> b]
Raise(exc) == [kind |-> exc, num |-> 0, den |-> 1]

Raised(r) == r.kind \in {"TypeError", "IndexError", "ValueError", "AttributeError"}
Defined(r) == r.kind \in {"value", "exact", "inf"}

(***************************************************************************)
(* stats_utils.check_nan: elementwise isnan, reduced with any / all over   *)
(* the whole array (axis=None).                                            *)
(***************************************************************************)
isnan(a) == [c \in 1..Len(a.data) |-> [d \in 1..Len(a.data[c]) |-> a.data[c][d].nan]]

check_nan_swapped(a, how) ==
    IF how = "any"
    THEN \A c \in 1..Len(a.data) : \A d \in 1..Len(a.data[c]) : isnan(a)[c][d]
    ELSE \E c \in 1..Len(a.data) : \E d \in 1..Len(a.data[c]) : isnan(a)[c][d]

check_nan(a, how) ==
    IF how = "any"
    THEN \E c \in 1..Len(a.data) : \E d \in 1..Len(a.data[c]) : isnan(a)[c][d]
    ELSE \A c \in 1..Len(a.data) : \A d \in 1..Len(a.data[c]) : isnan(a)[c][d]

(***************************************************************************)
(* stats_utils.check_valid_size: raises TypeError unless the array is 2-D  *)
(* with at least min_n_chain chains and min_n_draw draws.                  *)
(***************************************************************************)
check_valid_size(a, min_n_chain, min_n_draw) ==
    IF a.ndim # 2 THEN "TypeError"
    ELSE IF Len(a.data) < min_n_chain THEN "TypeError"
    ELSE IF Len(a.data[1]) < min_n_draw THEN "TypeError"
    ELSE "ok"

(***************************************************************************)
(* Rank-normalization and splitting.                                       *)
(***************************************************************************)
\* Split transform: each chain's first and second half become two chains;
\* an odd draw count drops the final draw.
_split_chains(rows) ==
    LET half == Len(rows[1]) \div 2
    IN  [c \in 1..Len(rows) |-> SubSeq(rows[c], 1, half)]
        \o [c \in 1..Len(rows) |-> SubSeq(rows[c], half + 1, 2 * half)]

\* Twice the median of all values of the matrix.
median2(rows) ==
    LET s == Sorted(Flatten(rows))
        n == Len(s)
    IN  IF n % 2 = 1 THEN 2 * s[(n + 1) \div 2] ELSE s[n \div 2] + s[n \div 2 + 1]

\* Folded transform |x - median(x)|, in units of one half.
fold(rows) ==
    [c \in 1..Len(rows) |-> [d \in 1..Len(rows[c]) |-> Abs(2 * rows[c][d] - median2(rows))]]

\* Rank transform: every entry is replaced by its average rank among all
\* entries of the matrix (ties share the average), kept here as twice the
\* rank.  The inverse normal CDF applied afterwards is strictly increasing,
\* so the scores are equal, and ordered, exactly as the ranks are.
rank2(flat, x) ==
    2 * Cardinality({i \in 1..Len(flat) : flat[i] < x})
    + Cardinality({i \in 1..Len(flat) : flat[i] = x}) + 1

_z_scale(rows) ==
    [c \in 1..Len(rows) |-> [d \in 1..Len(rows[c]) |-> rank2(Flatten(rows), rows[c][d])]]

IsConstant(rows) == \A i, j \in 1..Len(Flatten(rows)) : Flatten(rows)[i] = Flatten(rows)[j]

(***************************************************************************)
(* R-hat.                                                                  *)
(***************************************************************************)
RhatMethodsNoZScale == {"rank", "split", "folded", "identity"}

\* The methods the tests call rhat with and get a number from.
RhatMethods == {"rank", "split", "folded", "z_scale", "identity"}

rhat_undefined_min4(m, chain, draw) ==
    \/ chain < 2
    \/ draw < 4 /\ m # "identity"
    \/ draw < 2 /\ m = "identity"

\* test_rhat_shape: the shapes on which rhat is NaN.
rhat_undefined(m, chain, draw) ==
    \/ chain < 2
    \/ draw < 6 /\ m # "identity"
    \/ draw < 3 /\ m = "identity"

\* The chain matrix the core computation sees under each method.
rhat_matrix(rows, m) ==
    CASE m = "identity" -> rows
      [] m = "split" -> _split_chains(rows)
      [] m = "folded" -> _split_chains(_z_scale(fold(rows)))
      [] OTHER -> _split_chains(_z_scale(rows))

\* W = mean of the within-chain variances, B = draw count times the variance
\* of the chain means, var_hat = (n-1)/n W + B/n, rhat = sqrt(var_hat / W).
\* W is zero exactly when every chain is constant, B exactly when the chain
\* means agree; 0/0 is NaN and a positive number over 0 is infinite.
_rhat(rows) ==
    LET Wzero == \A c \in 1..Len(rows) : IsConstant(<<rows[c]>>)
        Bzero == \A c, e \in 1..Len(rows) : SumSeq(rows[c]) = SumSeq(rows[e])
    IN  IF ~Wzero THEN ValueResult
        ELSE IF Bzero THEN NanResult
        ELSE InfResult

rhat(a, m) ==
    IF m \notin RhatMethods THEN Raise("TypeError")
    ELSE IF check_nan(a, "any") THEN NanResult
    ELSE IF rhat_undefined(m, n_chain(a), n_draw(a)) THEN NanResult
    ELSE _rhat(rhat_matrix(Rows(a), m))

(***************************************************************************)
(* Effective sample size.                                                  *)
(***************************************************************************)
EssMethods ==
    {"bulk", "tail", "quantile", "mean", "sd", "median", "mad", "z_scale",
     "folded", "split", "identity"}

ess_prob_required_with_tail == {"quantile", "tail"}

\* test_effective_sample_size_missing_prob, test_effective_sample_size_array:
\* quantile needs prob; tail falls back on its default (0.05, 0.95).
ess_prob_required == {"quantile"}

ess_undefined_min4(m, draw) == draw < 4

\* test_effective_sample_size_nan: the draw counts on which ess is NaN.
ess_undefined(m, draw) ==
    \/ draw < 6 /\ m # "identity"
    \/ draw < 3 /\ m = "identity"

\* The methods whose pipeline splits the chains before the core estimator.
EssSplitMethods == {"bulk", "split"}

ess_matrix(rows, m) == IF m \in EssSplitMethods THEN _split_chains(_z_scale(rows)) ELSE rows

\* Core estimator: a constant matrix gives its nominal sample count
\* (chains x draws); anything else a finite number.  relative divides by the
\* total draw count of the input.
_ess(rows, rel, total) ==
    IF IsConstant(rows)
    THEN Exact(Len(rows) * Len(rows[1]), IF rel THEN total ELSE 1)
    ELSE ValueResult

ess(a, m, p, rel) ==
    IF m \notin EssMethods THEN Raise("TypeError")
    ELSE IF m \in ess_prob_required /\ p = "None" THEN Raise("TypeError")
    ELSE IF check_nan(a, "any") THEN NanResult
    ELSE IF ess_undefined(m, n_draw(a)) THEN NanResult
    ELSE _ess(ess_matrix(Rows(a), m), rel, n_chain(a) * n_draw(a))

(***************************************************************************)
(* Monte Carlo standard error.                                             *)
(***************************************************************************)
McseMethods == {"mean", "sd", "quantile"}

\* test_mcse_nan: the draw counts on which mcse is NaN.
mcse_undefined(m, draw) == draw < 6

mcse(a, m, p) ==
    IF m \notin McseMethods THEN Raise("TypeError")
    ELSE IF m = "quantile" /\ p = "None" THEN Raise("TypeError")
    ELSE IF check_nan(a, "any") THEN NanResult
    ELSE IF mcse_undefined(m, n_draw(a)) THEN NanResult
    ELSE ValueResult

(***************************************************************************)
(* stats_utils.autocov and autocorr on a 1-D array x of length n.          *)
(*                                                                         *)
(* Numbers are kept exact: the centred entries x[t] - mean are held as     *)
(* n * x[t] - sum(x), so a sum of products of two of them is n * n times   *)
(* the true sum, and every lag of the result is a quotient num/den.        *)
(***************************************************************************)
\* axis = axis if axis > 0 else len(ary.shape) + axis
norm_axis(ax, ndim) == IF ax > 0 THEN ax ELSE ndim + ax

RECURSIVE Strip(_, _)
Strip(k, p) == IF k % p = 0 THEN Strip(k \div p, p) ELSE k

\* scipy.fftpack.next_fast_len: the smallest composite of 2, 3 and 5 that is
\* at least n.
IsFastLen(k) == Strip(Strip(Strip(k, 2), 3), 5) = 1

RECURSIVE next_fast_len(_)
next_fast_len(n) == IF IsFastLen(n) THEN n ELSE next_fast_len(n + 1)

fft_len_unpadded(n) == next_fast_len(n)

fft_len_of_double(n) == next_fast_len(2 * n)

\* m = next_fast_len(n); mt2 = m * 2
fft_len(n) == next_fast_len(n) * 2

\* ary - ary.mean(axis, keepdims=True), times n.
centred(x) == [t \in 1..Len(x) |-> Len(x) * x[t] - SumSeq(x)]

\* np.concatenate((ary, np.zeros(pad_shape)), axis=axis)
zero_padded(y, size) == y \o [i \in 1..(size - Len(y)) |-> 0]

\* irfft(rfft(y) * conj(rfft(y)), n=N)[k]: the circular autocorrelation of
\* period N of the real sequence y.
power_spectrum_inverse(y, k) ==
    SumSeq([t \in 1..Len(y) |-> y[t] * y[((t - 1 + k) % Len(y)) + 1]])

autocov_1d(x) ==
    LET n == Len(x)
        y == zero_padded(centred(x), fft_len(n))
    IN  [k \in 1..n |-> [num |-> power_spectrum_inverse(y, k - 1), den |-> n * n * n]]

\* len(ary.shape): the call is made with a 1-D array x or, when g is not
\* empty, with the 2-D array g.
ndim_of(x, g) == IF g = <<>> THEN 1 ELSE 2

\* ary.shape[axis] raises IndexError for an axis outside the array.
autocov_raises(ndim, ax) == norm_axis(ax, ndim) \notin (-ndim)..(ndim - 1)

\* corr[k] / corr[0] with corr[0] already overwritten by 1.
divided_in_place(cov, k) == IF k = 1 THEN [num |-> 1, den |-> 1] ELSE cov[k]

\* corr /= corr[norm]: every lag over the lag-0 value.
divided(cov, k) == [num |-> cov[k].num * cov[1].den, den |-> cov[k].den * cov[1].num]

autocorr_1d(x) ==
    LET corr == autocov_1d(x)
    IN  [k \in 1..Len(x) |-> divided(corr, k)]

\* A 2-D array is a sequence of rows.  Axis 0 runs down a column, axis 1
\* along a row.
Column(g, c) == [r \in 1..Len(g) |-> g[r][c]]
Transposed(g) == [c \in 1..Len(g[1]) |-> Column(g, c)]

\* n = ary.shape[axis], for an axis inside the array.
shape_at(g, ax) == IF ax = 0 THEN Len(g) ELSE Len(g[1])

\* autocov of a 2-D array along axis ax in {0, 1}: every other index keeps
\* its own sequence.
autocov_2d(g, ax) ==
    IF ax = 1 THEN [r \in 1..Len(g) |-> autocov_1d(g[r])]
    ELSE Transposed([c \in 1..Len(g[1]) |-> autocov_1d(Column(g, c))])

autocorr_2d(g, ax) ==
    IF ax = 1 THEN [r \in 1..Len(g) |-> autocorr_1d(g[r])]
    ELSE Transposed([c \in 1..Len(g[1]) |-> autocorr_1d(Column(g, c))])

(***************************************************************************)
(* diagnostics.ks_summary.  Pareto-k values are held in tenths.            *)
(***************************************************************************)
KBins == <<5, 7, 10>>

\* The bucket of a value: 1 good, 2 ok, 3 bad, 4 very bad.
k_bucket(k) == 1 + Cardinality({i \in 1..Len(KBins) : KBins[i] <= k})

ks_counts(ks) == [b \in 1..4 |-> Cardinality({i \in 1..Len(ks) : k_bucket(ks[i]) = b})]

ks_warns_when_bad(kc) == kc[3] + kc[4] > 0

\* test_ks_summary: values all good, or good and ok, give a UserWarning.
ks_warns(kc) == kc[3] + kc[4] = 0

(***************************************************************************)
(* diagnostics._mc_error on a 1-D array, circular=False.  The result       *)
(* stdev(batch_means) / sqrt(batches) is held as its square num/den.       *)
(***************************************************************************)
batch_len_rounded_up(n, b) == (n + b - 1) \div b

batch_len(n, b) == n \div b

\* The draws laid out row after row as `b` contiguous groups of batch_len
\* entries (a layout longer than the array starts over at its head); what is
\* left over at the end is dropped.
batched_traces(x, b) ==
    LET g == batch_len(Len(x), b)
    IN  [i \in 1..b |-> [j \in 1..g |-> x[(((i - 1) * g + j - 1) % Len(x)) + 1]]]

_mc_error(a, b) ==
    IF check_nan(a, "any") THEN NanResult
    ELSE LET x == Values(a.data[1])
             rows == batched_traces(x, b)
             g == Len(rows[1])
             S == [i \in 1..b |-> SumSeq(rows[i])]
         IN  IF g = 0 THEN NanResult
             ELSE [kind |-> "sqrt",
                   num |-> b * SumSeq([i \in 1..b |-> S[i] * S[i]]) - SumSeq(S) * SumSeq(S),
                   den |-> b * b * b * g * g]

(***************************************************************************)
(* stats_utils.make_ufunc and wrap_xarray_ufunc.                           *)
(*                                                                         *)
(* A dict is a set of <<key, value>> pairs with at most one pair per key.  *)
(* An argument that may be None is a record [given, items]; when given,    *)
(* items is the caller's own object, which every call receives again.      *)
(* input_core_dims and output_core_dims are held as their lengths.         *)
(***************************************************************************)
Keys(d) == {kv[1] : kv \in d}

\* dict.get(key, default)
Get(d, key, default) ==
    IF key \in Keys(d) THEN (CHOOSE kv \in d : kv[1] = key)[2] ELSE default

\* The dict after dict.pop(key, default).
Popped(d, key) == {kv \in d : kv[1] # key}

\* if ufunc_kwargs is None: ufunc_kwargs = {}
dict_or_new(arg) == IF arg.given THEN arg.items ELSE {}

\* if func_args is None: func_args = tuple()
tuple_or_new(arg) == IF arg.given THEN arg.items ELSE <<>>

\* if n_output > 1: ufunc = _multi_ufunc else: ufunc = _ufunc
ufunc_wrapper(n) == IF n > 1 THEN "_multi_ufunc" ELSE "_ufunc"

\* One call: what it uses, and the caller's ufunc_kwargs after it.  kw is
\* the call's own **kwargs dict, rebuilt from the call site on every call.
wrap_xarray_ufunc(uk, fa, kw) ==
    LET d == dict_or_new(uk)
        n == Get(d, "n_output", 1)
    IN  [n_output |-> n,
         wrapper |-> ufunc_wrapper(n),
         input_core_dims |-> Get(kw, "input_core_dims", Len(tuple_or_new(fa)) + 1),
         output_core_dims |-> Get(kw, "output_core_dims", n),
         ufunc_kwargs |-> [given |-> uk.given,
                           items |-> IF uk.given THEN Popped(d, "n_output") ELSE {}]]

(***************************************************************************)
(* The ufunc make_ufunc returns, called on an array with one leading axis. *)
(* x[idx] stands for the sub-array ary[idx] handed to func; `out` is a     *)
(* record [kind, cells]: kind is "None", "array" (one ndarray), "tuple" or *)
(* "list" (of ndarrays), cells the arrays it holds.                        *)
(***************************************************************************)
\* Output i of the wrapped function on one element.  The function is the
\* caller's; this one stands for it.
func(x, i) == x + 10 * i

\* np.empty(element_shape), one array per output.
allocated(n, len) == [i \in 1..n |-> [idx \in 1..len |-> 0]]

\* The checks made on `out` before the loop: "ok" or the exception raised.
out_check(o, n, len) ==
    IF o.kind = "None" THEN "ok"
    ELSE IF n > 1
    THEN IF o.kind = "tuple" /\ Len(o.cells) = n
                             /\ \A i \in 1..Len(o.cells) : Len(o.cells[i]) = len
         THEN "ok" ELSE "TypeError"
    ELSE IF o.kind # "array" THEN "AttributeError"
    ELSE IF Len(o.cells[1]) # len THEN "TypeError"
    ELSE "ok"

\* The arrays after the loop has assigned the elements 1..last.
written(cells, x, last) ==
    [i \in 1..Len(cells) |->
        [idx \in 1..Len(cells[i]) |->
            IF idx <= last THEN func(x[idx], i) ELSE cells[i][idx]]]

(***************************************************************************)
(* stats_utils.logsumexp with out=None.  A shape is a sequence of          *)
(* dimensions; axes count from 0 as in the source, so axis i is the        *)
(* element i + 1 of a shape.  The finite values are not computed.          *)
(***************************************************************************)
Range(t) == {t[i] : i \in 1..Len(t)}

\* axis_i if axis_i >= 0 else shape_len + axis_i
lse_axis(a, shape_len) == IF a >= 0 THEN a ELSE shape_len + a

\* agroup: the axes reduced, for an axis that is not None.
agroup(ax, shape_len) == {lse_axis(a, shape_len) : a \in Range(ax.val)}

\* tuple(1 for _ in shape) if axis is None
\* else tuple(1 if i in agroup else d for i, d in enumerate(shape))
shape_max(sh, ax) ==
    IF ax.kind = "None" THEN [i \in 1..Len(sh) |-> 1]
    ELSE [i \in 1..Len(sh) |-> IF (i - 1) \in agroup(ax, Len(sh)) THEN 1 ELSE sh[i]]

\* tuple(d for i, d in enumerate(shape) if i not in agroup), from axis i on.
RECURSIVE not_in_agroup(_, _, _)
not_in_agroup(sh, group, i) ==
    IF i >= Len(sh) THEN <<>>
    ELSE (IF i \in group THEN <<>> ELSE <<sh[i + 1]>>) \o not_in_agroup(sh, group, i + 1)

out_shape(sh, ax, keep) ==
    IF keep THEN shape_max(sh, ax)
    ELSE IF ax.kind = "None" THEN <<>>
    ELSE not_in_agroup(sh, agroup(ax, Len(sh)), 0)

\* ndarray.squeeze(): every axis of length 1 is removed.
RECURSIVE squeeze(_)
squeeze(sh) ==
    IF sh = <<>> THEN <<>>
    ELSE (IF Head(sh) = 1 THEN <<>> ELSE <<Head(sh)>>) \o squeeze(Tail(sh))

\* NumPy broadcasting of an in-place operation `target += other`: the
\* shapes are aligned at their last axis and the operation is accepted when
\* the broadcast shape is the shape of target.
iadd_accepted(target, other) ==
    /\ Len(other) <= Len(target)
    /\ \A i \in 1..Len(other) :
           other[i] \in {1, target[Len(target) - Len(other) + i]}

zero_weight_inf(b, binv) ==
    IF binv = "0" \/ (binv = "None" /\ b = "0") THEN InfResult ELSE NoResult

\* if b_inv == 0: return inf;  if b_inv is None and b == 0: return -inf.
\* NoResult when neither return is taken.
zero_weight(b, binv) ==
    IF binv = "0" THEN InfResult
    ELSE IF binv = "None" /\ b = "0" THEN NegInfResult
    ELSE NoResult

\* What the call gives back, and the shape of it.
logsumexp(sh, b, binv, ax, keep) ==
    IF zero_weight(b, binv) # NoResult
    THEN [result |-> zero_weight(b, binv), shape |-> out_shape(sh, ax, keep)]
    ELSE IF ~keep /\ ~iadd_accepted(out_shape(sh, ax, keep), squeeze(shape_max(sh, ax)))
    THEN [result |-> Raise("ValueError"), shape |-> <<>>]
    ELSE [result |-> ValueResult, shape |-> out_shape(sh, ax, keep)]

(***************************************************************************)
(* The arrays the calls are made with, after the tests' own:               *)
(* np.random.randn(draw) or np.random.randn(chain, draw), np.ones(shape),  *)
(* and data[0] = nan or data[0, 0] = nan.                                  *)
(***************************************************************************)
Fills == {"const", "ramp", "alt", "bychain"}
NanPlaces == {"none", "first", "row0", "last"}

Fill(f, c, d) ==
    CASE f = "const" -> 1
      [] f = "ramp" -> c + d
      [] f = "alt" -> 2 * ((c + d) % 2)
      [] OTHER -> c

Holed(place, nd, c, d, C, D) ==
    CASE place = "none" -> FALSE
      [] place = "first" -> c = 1 /\ d = 1
      [] place = "row0" -> IF nd = 1 THEN d = 1 ELSE c = 1
      [] OTHER -> c = C /\ d = D

MakeAry(nd, C, D, f, place) ==
    [ndim |-> nd,
     data |-> [c \in 1..C |-> [d \in 1..D |->
                  IF Holed(place, nd, c, d, C, D) THEN NaN ELSE Num(Fill(f, c, d))]]]

Arys ==
    {MakeAry(1, 1, D, f, place) : D \in 1..MaxDraw, f \in Fills, place \in NanPlaces}
    \cup {MakeAry(2, C, D, f, place) :
             C \in 1..MaxChain, D \in 1..MaxDraw, f \in Fills, place \in NanPlaces}

NoAry == [ndim |-> 1, data |-> <<<<Num(0)>>>>]

Probs == {"None", "0.34"}

\* The method strings the calls are made with.
MethodInputs ==
    {"rank", "bulk", "tail", "quantile", "mean", "sd", "median", "mad", "z_scale",
     "folded", "split", "identity", "wrong_method"}

(***************************************************************************)
(* One call.                                                               *)
(***************************************************************************)
\* 1-D arrays of numbers for autocov and autocorr.
SeqArys == UNION {[1..n -> {0, 1, 2}] : n \in 1..MaxLen}

\* 1-D arrays for _mc_error, with or without NaN.
SizeArys ==
    UNION {[ndim : {1}, data : {<<r>> : r \in [1..n -> {Num(0), Num(1), Num(3), NaN}]}] :
              n \in 1..MaxSize}

\* Pareto-k values in tenths.
KValues == {1, 2, 5, 6, 7, 10, 12}
KArys == UNION {[1..n -> KValues] : n \in 1..MaxK}

\* 2-D arrays for autocov and autocorr.
Grids == UNION {[1..r -> [1..c -> {0, 1}]] : r \in 1..MaxSide, c \in 1..MaxSide}

\* The call is not one of autocov or autocorr on a 2-D array.
NoGrid == grid = <<>>

\* Arguments of a ufunc: the leading elements of ary and `out`.
LeadArys == UNION {[1..len -> {0, 1}] : len \in 1..MaxLead}
Blank(len) == [idx \in 1..len |-> -1]
NoOut == [kind |-> "None", cells |-> <<>>]
OutArgs(len) ==
    {NoOut}
    \cup {[kind |-> "array", cells |-> <<Blank(l)>>] : l \in {len, len + 1}}
    \cup {[kind |-> k, cells |-> c] :
             k \in {"tuple", "list"},
             c \in UNION {[1..m -> {Blank(len), Blank(len + 1)}] : m \in 1..MaxOutputs}}

\* No ufunc is being called.
NoUfunc == n_output = 1 /\ out = NoOut /\ fail_at = 0

\* Arguments of logsumexp: shapes of up to MaxNdim axes; for the axis,
\* None, every index of an axis, and every sequence of one or two indices
\* that name different axes.
Shapes == UNION {[1..n -> 1..MaxDim] : n \in 0..MaxNdim}
AxisNone == [kind |-> "None", val |-> <<>>]
AxisArgs(n) ==
    {AxisNone}
    \cup {[kind |-> "int", val |-> <<a>>] : a \in (-n)..(n - 1)}
    \cup {[kind |-> "seq", val |-> <<a>>] : a \in (-n)..(n - 1)}
    \cup {[kind |-> "seq", val |-> pair] :
             pair \in {q \in ((-n)..(n - 1)) \X ((-n)..(n - 1)) :
                          lse_axis(q[1], n) # lse_axis(q[2], n)}}
Weights == {"None", "0", "2"}

\* logsumexp is not being called.
NoLse ==
    /\ shape = <<>> /\ axis_arg = AxisNone /\ keepdims = FALSE
    /\ b_weight = "None" /\ b_inv = "None"

\* Arguments of wrap_xarray_ufunc.
NotGiven == [given |-> FALSE, items |-> {}]
UfuncKwargs ==
    {NotGiven} \cup
    {[given |-> TRUE, items |-> n \cup d] :
        n \in {{}, {<<"n_output", 1>>}, {<<"n_output", 2>>}},
        d \in {{}, {<<"n_dims", 2>>}}}
FuncArgs == {[given |-> FALSE, items |-> <<>>], [given |-> TRUE, items |-> <<1>>]}
FuncKwargs == {NotGiven, [given |-> TRUE, items |-> {<<"prob", 1>>}]}
XrKwargs == {{}, {<<"output_core_dims", 1>>}, {<<"output_core_dims", 2>>}}

\* No call of wrap_xarray_ufunc is being made.
NoWrap ==
    /\ ufunc_kwargs = NotGiven
    /\ func_args = [given |-> FALSE, items |-> <<>>]
    /\ func_kwargs = NotGiven
    /\ kwargs = {}

Ops == {"rhat", "ess", "mcse", "check_valid_size", "autocov", "autocorr",
        "ks_summary", "mc_error", "wrap_xarray_ufunc", "ufunc", "logsumexp"}

Init ==
    /\ pc = "ready"
    /\ op \in Ops
    /\ result = NoResult
    /\ vec = <<>>
    /\ batched = <<>>
    /\ kcounts = <<>>
    /\ warned = FALSE
    /\ calls = <<>>
    /\ gridout = <<>>
    /\ res_shape = <<>>
    /\ func_calls = 0
    /\ returned = <<>>
    /\ mt2 = 0
    /\ \/ /\ op = "rhat"
          /\ ary \in Arys
          /\ seq = <<>> /\ axis = -1 /\ batches = 0
          /\ method \in MethodInputs
          /\ prob = "None"
          /\ relative = FALSE
          /\ NoWrap /\ NoGrid /\ NoUfunc /\ NoLse
       \/ /\ op = "ess"
          /\ ary \in Arys
          /\ seq = <<>> /\ axis = -1 /\ batches = 0
          /\ method \in MethodInputs
          /\ prob \in Probs
          /\ relative \in BOOLEAN
          /\ NoWrap /\ NoGrid /\ NoUfunc /\ NoLse
       \/ /\ op = "mcse"
          /\ ary \in Arys
          /\ seq = <<>> /\ axis = -1 /\ batches = 0
          /\ method \in MethodInputs
          /\ prob \in Probs
          /\ relative = FALSE
          /\ NoWrap /\ NoGrid /\ NoUfunc /\ NoLse
       \/ /\ op = "check_valid_size"
          /\ ary \in Arys
          /\ seq = <<>> /\ axis = -1 /\ batches = 0
          /\ method = ""
          /\ prob = "None"
          /\ relative = FALSE
          /\ NoWrap /\ NoGrid /\ NoUfunc /\ NoLse
       \/ /\ op \in {"autocov", "autocorr"}
          /\ \/ seq \in SeqArys /\ NoGrid /\ axis \in -1..0
             \/ seq = <<>> /\ grid \in Grids /\ axis \in -2..1
          /\ ary = NoAry /\ batches = 0
          /\ method = ""
          /\ prob = "None"
          /\ relative = FALSE
          /\ NoWrap /\ NoUfunc /\ NoLse
       \/ /\ op = "ks_summary"
          /\ seq \in KArys
          /\ ary = NoAry /\ axis = -1 /\ batches = 0
          /\ method = ""
          /\ prob = "None"
          /\ relative = FALSE
          /\ NoWrap /\ NoGrid /\ NoUfunc /\ NoLse
       \/ /\ op = "mc_error"
          /\ ary \in SizeArys
          /\ batches \in 1..MaxBatches
          /\ seq = <<>> /\ axis = -1
          /\ method = ""
          /\ prob = "None"
          /\ relative = FALSE
          /\ NoWrap /\ NoGrid /\ NoUfunc /\ NoLse
       \/ /\ op = "wrap_xarray_ufunc"
          /\ ufunc_kwargs \in UfuncKwargs
          /\ func_args \in FuncArgs
          /\ func_kwargs \in FuncKwargs
          /\ kwargs \in XrKwargs
          /\ NoGrid /\ NoUfunc /\ NoLse
          /\ ary = NoAry /\ seq = <<>> /\ axis = -1 /\ batches = 0
          /\ method = ""
          /\ prob = "None"
          /\ relative = FALSE
       \/ /\ op = "ufunc"
          /\ seq \in LeadArys
          /\ n_output \in 1..MaxOutputs
          /\ out \in OutArgs(Len(seq))
          /\ fail_at \in 0..Len(seq)
          /\ ary = NoAry /\ axis = -1 /\ batches = 0
          /\ method = ""
          /\ prob = "None"
          /\ relative = FALSE
          /\ NoWrap /\ NoGrid /\ NoLse
       \/ /\ op = "logsumexp"
          /\ shape \in Shapes
          /\ axis_arg \in AxisArgs(Len(shape))
          /\ keepdims \in BOOLEAN
          /\ b_weight \in Weights
          /\ b_inv \in Weights
          /\ ary = NoAry /\ seq = <<>> /\ axis = -1 /\ batches = 0
          /\ method = ""
          /\ prob = "None"
          /\ relative = FALSE
          /\ NoWrap /\ NoGrid /\ NoUfunc

Rhat ==
    /\ pc = "ready" /\ op = "rhat"
    /\ result' = rhat(ary, method)
    /\ pc' = "done"
    /\ UNCHANGED <<op, ary, seq, method, prob, relative, batches, axis, vec, batched, kcounts, warned>>
    /\ UNCHANGED <<acvars, utilvars>>

Ess ==
    /\ pc = "ready" /\ op = "ess"
    /\ result' = ess(ary, method, prob, relative)
    /\ pc' = "done"
    /\ UNCHANGED <<op, ary, seq, method, prob, relative, batches, axis, vec, batched, kcounts, warned>>
    /\ UNCHANGED <<acvars, utilvars>>

Mcse ==
    /\ pc = "ready" /\ op = "mcse"
    /\ result' = mcse(ary, method, prob)
    /\ pc' = "done"
    /\ UNCHANGED <<op, ary, seq, method, prob, relative, batches, axis, vec, batched, kcounts, warned>>
    /\ UNCHANGED <<acvars, utilvars>>

CheckValidSize ==
    /\ pc = "ready" /\ op = "check_valid_size"
    /\ result' = (IF check_valid_size(ary, 2, 2) = "ok" THEN ValueResult ELSE Raise("TypeError"))
    /\ pc' = "done"
    /\ UNCHANGED <<op, ary, seq, method, prob, relative, batches, axis, vec, batched, kcounts, warned>>
    /\ UNCHANGED <<acvars, utilvars>>

Autocov ==
    /\ pc = "ready" /\ op = "autocov"
    /\ IF autocov_raises(ndim_of(seq, grid), axis)
       THEN result' = Raise("IndexError") /\ vec' = <<>> /\ gridout' = <<>> /\ mt2' = 0
       ELSE /\ result' = ValueResult
            /\ IF grid = <<>>
               THEN /\ vec' = autocov_1d(seq)
                    /\ gridout' = <<>>
                    /\ mt2' = fft_len(Len(seq))
               ELSE /\ vec' = <<>>
                    /\ gridout' = autocov_2d(grid, norm_axis(axis, 2))
                    /\ mt2' = fft_len(shape_at(grid, norm_axis(axis, 2)))
    /\ pc' = "done"
    /\ UNCHANGED <<op, ary, seq, method, prob, relative, batches, axis, batched, kcounts, warned>>
    /\ UNCHANGED <<grid, utilvars>>

Autocorr ==
    /\ pc = "ready" /\ op = "autocorr"
    /\ IF autocov_raises(ndim_of(seq, grid), axis)
       THEN result' = Raise("IndexError") /\ vec' = <<>> /\ gridout' = <<>> /\ mt2' = 0
       ELSE /\ result' = ValueResult
            /\ IF grid = <<>>
               THEN /\ vec' = autocorr_1d(seq)
                    /\ gridout' = <<>>
                    /\ mt2' = fft_len(Len(seq))
               ELSE /\ vec' = <<>>
                    /\ gridout' = autocorr_2d(grid, norm_axis(axis, 2))
                    /\ mt2' = fft_len(shape_at(grid, norm_axis(axis, 2)))
    /\ pc' = "done"
    /\ UNCHANGED <<op, ary, seq, method, prob, relative, batches, axis, batched, kcounts, warned>>
    /\ UNCHANGED <<grid, utilvars>>

\* The tests call ks_summary only with values below 0.7; whether a bad value
\* is warned about is left open.
KsSummary ==
    /\ pc = "ready" /\ op = "ks_summary"
    /\ kcounts' = ks_counts(seq)
    /\ warned' \in (IF ks_warns(ks_counts(seq)) THEN {TRUE} ELSE BOOLEAN)
    /\ result' = ValueResult
    /\ pc' = "done"
    /\ UNCHANGED <<op, ary, seq, method, prob, relative, batches, axis, vec, batched>>
    /\ UNCHANGED <<acvars, utilvars>>

McError ==
    /\ pc = "ready" /\ op = "mc_error"
    /\ result' = _mc_error(ary, batches)
    /\ batched' = (IF check_nan(ary, "any") THEN <<>>
                   ELSE batched_traces(Values(ary.data[1]), batches))
    /\ pc' = "done"
    /\ UNCHANGED <<op, ary, seq, method, prob, relative, batches, axis, vec, kcounts, warned>>
    /\ UNCHANGED <<acvars, utilvars>>

\* The caller calls again with the same argument objects, MaxCalls times.
WrapXarrayUfunc ==
    /\ pc = "ready" /\ op = "wrap_xarray_ufunc"
    /\ LET call == wrap_xarray_ufunc(ufunc_kwargs, func_args, kwargs)
       IN  /\ calls' = Append(calls, [n_output |-> call.n_output,
                                      wrapper |-> call.wrapper,
                                      input_core_dims |-> call.input_core_dims,
                                      output_core_dims |-> call.output_core_dims])
           /\ ufunc_kwargs' = call.ufunc_kwargs
    /\ result' = ValueResult
    /\ pc' = (IF Len(calls) + 1 < MaxCalls THEN "ready" ELSE "done")
    /\ UNCHANGED <<op, ary, seq, method, prob, relative, batches, axis, vec, batched, kcounts, warned>>
    /\ UNCHANGED <<func_args, func_kwargs, kwargs>>
    /\ UNCHANGED <<acvars, ufuncvars, lsevars>>

\* _ufunc (n_output = 1) or _multi_ufunc: the checks on `out`, then the
\* loop over the leading index, which assigns each element as soon as func
\* has returned it and stops at the element where func raises.
Ufunc ==
    /\ pc = "ready" /\ op = "ufunc"
    /\ LET len == Len(seq)
           chk == out_check(out, n_output, len)
           start == IF out.kind = "None" THEN allocated(n_output, len) ELSE out.cells
           last == IF fail_at = 0 THEN len ELSE fail_at - 1
       IN  IF chk # "ok"
           THEN /\ result' = Raise(chk)
                /\ out' = out
                /\ func_calls' = 0
                /\ returned' = <<>>
           ELSE /\ func_calls' = (IF fail_at = 0 THEN len ELSE fail_at)
                /\ out' = (IF out.kind = "None" THEN out
                           ELSE [out EXCEPT !.cells = written(start, seq, last)])
                /\ IF fail_at = 0
                   THEN result' = ValueResult /\ returned' = written(start, seq, len)
                   ELSE result' = Raise("ValueError") /\ returned' = <<>>
    /\ pc' = "done"
    /\ UNCHANGED <<op, ary, seq, method, prob, relative, batches, axis, vec, batched, kcounts, warned>>
    /\ UNCHANGED <<n_output, fail_at, acvars, wrapvars, lsevars>>

Logsumexp ==
    /\ pc = "ready" /\ op = "logsumexp"
    /\ LET call == logsumexp(shape, b_weight, b_inv, axis_arg, keepdims)
       IN  result' = call.result /\ res_shape' = call.shape
    /\ pc' = "done"
    /\ UNCHANGED <<op, ary, seq, method, prob, relative, batches, axis, vec, batched, kcounts, warned>>
    /\ UNCHANGED <<shape, axis_arg, keepdims, b_weight, b_inv, acvars, wrapvars, ufuncvars>>

Next ==
    \/ Rhat \/ Ess \/ Mcse \/ CheckValidSize \/ Autocov \/ Autocorr \/ KsSummary \/ McError
    \/ WrapXarrayUfunc \/ Ufunc \/ Logsumexp

Spec == Init /\ [][Next]_vars

(***************************************************************************)
(* Properties.                                                             *)
(***************************************************************************)
HasNaN(a) == \E c \in 1..Len(a.data) : \E d \in 1..Len(a.data[c]) : a.data[c][d] = NaN

\* The call names a method the estimator accepts and gives the options the
\* method requires.
AcceptedCall ==
    \/ op = "rhat" /\ method \in RhatMethods
    \/ op = "ess" /\ method \in EssMethods /\ ~(method = "quantile" /\ prob = "None")
    \/ op = "mcse" /\ method \in McseMethods /\ ~(method = "quantile" /\ prob = "None")
    \/ op = "mc_error"

\* C1: an estimator called with an accepted method on an array that holds a
\* NaN returns NaN and does not raise, whatever the number of chains and
\* draws.
C1_NanGivesNan ==
    (pc = "done" /\ AcceptedCall /\ HasNaN(ary)) => result.kind = "nan"

C1_Witness ==
    /\ pc = "done" /\ op = "ess" /\ method = "bulk"
    /\ n_chain(ary) = 2 /\ n_draw(ary) = MaxDraw
    /\ HasNaN(ary) /\ ~ary.data[2][1].nan
    /\ result.kind = "nan"

\* C2 (as amended): for a NaN-free input rhat never raises; it returns NaN
\* when the input has fewer than 2 chains, or fewer than 3 draws with method
\* identity, or fewer than 6 draws with any other method; an input that meets
\* these minimums and has a non-constant chain in the chain matrix of the
\* method gives a defined value.
C2_RhatShapes ==
    (pc = "done" /\ op = "rhat" /\ method \in RhatMethods /\ ~HasNaN(ary)) =>
        LET small == \/ n_chain(ary) < 2
                     \/ method = "identity" /\ n_draw(ary) < 3
                     \/ method # "identity" /\ n_draw(ary) < 6
            M == rhat_matrix(Rows(ary), method)
        IN  /\ ~Raised(result)
            /\ small => result.kind = "nan"
            /\ (~small /\ \E c \in 1..Len(M) : ~IsConstant(<<M[c]>>)) => result.kind = "value"

C2_Witness ==
    /\ pc = "done" /\ op = "rhat" /\ method = "rank" /\ ~HasNaN(ary)
    /\ n_chain(ary) = 2 /\ n_draw(ary) = 6 /\ result.kind = "value"

\* C2 as first stated: NaN exactly below 2 chains, below 2 draws with
\* identity, below 4 draws with another method.
C2_Original ==
    (pc = "done" /\ op = "rhat" /\ method \in {"rank", "split", "folded", "identity"}
        /\ ~HasNaN(ary)) =>
        /\ ~Raised(result)
        /\ result.kind = "nan" <=>
              \/ n_chain(ary) < 2
              \/ method = "identity" /\ n_draw(ary) < 2
              \/ method # "identity" /\ n_draw(ary) < 4

\* C3 (as amended): rhat accepts exactly rank, split, folded, z_scale and
\* identity; every other method raises TypeError, also when the input holds
\* NaN or has too few chains or draws.
C3_RhatMethods ==
    (pc = "done" /\ op = "rhat") =>
        /\ Raised(result) <=> method \notin {"rank", "split", "folded", "z_scale", "identity"}
        /\ Raised(result) => result.kind = "TypeError"

C3_Witness ==
    /\ pc = "done" /\ op = "rhat" /\ method = "wrong_method"
    /\ HasNaN(ary) /\ n_chain(ary) = 1 /\ n_draw(ary) = 1
    /\ result.kind = "TypeError"

\* C3 as first stated: exactly rank, split, folded and identity are accepted.
C3_Original ==
    (pc = "done" /\ op = "rhat") =>
        (Raised(result) <=> method \notin {"rank", "split", "folded", "identity"})

\* C4 (as amended): ess raises TypeError when method is quantile and prob is
\* omitted, and for no other accepted method (tail without prob uses its
\* default); mcse raises it when method is quantile and prob is None; for
\* every input array and every value of relative.
C4_MissingProb ==
    /\ (pc = "done" /\ op = "ess" /\ method \in EssMethods) =>
          (result.kind = "TypeError" <=> (method = "quantile" /\ prob = "None"))
    /\ (pc = "done" /\ op = "mcse" /\ method = "quantile" /\ prob = "None") =>
          result.kind = "TypeError"

C4_Witness ==
    /\ pc = "done" /\ op = "ess" /\ method = "quantile" /\ prob = "None"
    /\ relative /\ HasNaN(ary) /\ n_draw(ary) = 1
    /\ result.kind = "TypeError"

\* C4 as first stated: quantile and tail both raise without prob.
C4_Original ==
    /\ (pc = "done" /\ op = "ess" /\ method \in {"quantile", "tail"} /\ prob = "None") =>
          result.kind = "TypeError"
    /\ (pc = "done" /\ op = "mcse" /\ method = "quantile" /\ prob = "None") =>
          result.kind = "TypeError"

\* C5 (as amended): for a NaN-free input with any number of chains, ess
\* returns NaN exactly when there are fewer than 3 draws per chain with
\* method identity or fewer than 6 with any other method, and a defined value
\* otherwise, for both values of relative.
C5_EssDraws ==
    (pc = "done" /\ op = "ess" /\ AcceptedCall /\ ~HasNaN(ary)) =>
        LET small == \/ method = "identity" /\ n_draw(ary) < 3
                     \/ method # "identity" /\ n_draw(ary) < 6
        IN  /\ result.kind = "nan" <=> small
            /\ ~small => Defined(result)

C5_Witness ==
    /\ pc = "done" /\ op = "ess" /\ method = "identity" /\ ~HasNaN(ary)
    /\ n_draw(ary) = 3 /\ relative /\ Defined(result)

\* C5 as first stated: NaN exactly below 4 draws per chain, for every method.
C5_Original ==
    (pc = "done" /\ op = "ess" /\ AcceptedCall /\ ~HasNaN(ary)) =>
        (result.kind = "nan" <=> n_draw(ary) < 4)

\* C6: ess of a constant array of shape (C, D) with enough draws is exactly
\* C * D.
C6_ConstantEss ==
    (pc = "done" /\ op = "ess" /\ AcceptedCall /\ ~relative /\ ~HasNaN(ary)
        /\ IsConstant(Rows(ary)) /\ ~ess_undefined(method, n_draw(ary))) =>
        result = Exact(n_chain(ary) * n_draw(ary), 1)

\* The autocovariance of x at lag k by its definition, without any padding
\* or wrap-around, times n * n * n.
DirectAutocov(x, k) ==
    SumSeq([t \in 1..(Len(x) - k) |-> centred(x)[t] * centred(x)[t + k]])

\* C7: for a 1-D x of length n >= 2, autocov(x)[k] is
\* (1/n) * sum over t of (x[t] - mean) * (x[t+k] - mean) for every lag k, and
\* autocov(x)[0] is the population variance (sum(x^2)/n - mean^2).
C7_AutocovBiased ==
    (pc = "done" /\ op = "autocov" /\ axis = -1 /\ Len(seq) >= 2) =>
        LET n == Len(seq)
        IN  /\ Len(vec) = n
            /\ \A k \in 0..(n - 1) :
                  /\ vec[k + 1].den > 0
                  /\ vec[k + 1].num * (n * n * n) = DirectAutocov(seq, k) * vec[k + 1].den
            /\ vec[1].num * (n * n)
                  = (n * SumSeq([t \in 1..n |-> seq[t] * seq[t]]) - SumSeq(seq) * SumSeq(seq))
                    * vec[1].den

C7_Witness ==
    /\ pc = "done" /\ op = "autocov" /\ axis = -1
    /\ Len(seq) = 7 /\ fft_len(7) = 16
    /\ vec[1].num > 0 /\ vec[2].num # 0 /\ vec[7].num # 0

IsNanQuotient(q) == q.num = 0 /\ q.den = 0

\* C8: for a non-constant 1-D x, autocorr(x)[0] is 1 and every lag is the
\* autocovariance at that lag over the lag-0 autocovariance; for a constant
\* x every entry is NaN and nothing is raised.
C8_AutocorrNormalised ==
    (pc = "done" /\ op = "autocorr" /\ axis = -1) =>
        IF IsConstant(<<seq>>)
        THEN /\ ~Raised(result)
             /\ Len(vec) = Len(seq)
             /\ \A k \in 1..Len(vec) : IsNanQuotient(vec[k])
        ELSE /\ vec[1].num = vec[1].den /\ vec[1].den # 0
             /\ \A k \in 0..(Len(seq) - 1) :
                   /\ vec[k + 1].den # 0
                   /\ vec[k + 1].num * DirectAutocov(seq, 0)
                         = DirectAutocov(seq, k) * vec[k + 1].den

C8_Witness ==
    /\ pc = "done" /\ op = "autocorr" /\ axis = -1 /\ Len(seq) = 3
    /\ ~IsConstant(<<seq>>)
    /\ vec[1].num = vec[1].den /\ vec[2].num # 0 /\ vec[2].num # vec[2].den

C8_WitnessConstant ==
    /\ pc = "done" /\ op = "autocorr" /\ axis = -1 /\ Len(seq) = 3
    /\ IsConstant(<<seq>>) /\ IsNanQuotient(vec[1])

\* C9 (as amended): ks_summary counts every Pareto-k value in exactly one of
\* the four buckets (<0.5, 0.5 to <0.7, 0.7 to <1, >=1), and an input with no
\* value in the bad or very bad bucket, such as one whose values are all
\* below 0.5, produces a warning.
C9_KsSummary ==
    (pc = "done" /\ op = "ks_summary") =>
        LET n == Len(seq)
        IN  /\ kcounts[1] = Cardinality({i \in 1..n : seq[i] < 5})
            /\ kcounts[2] = Cardinality({i \in 1..n : 5 <= seq[i] /\ seq[i] < 7})
            /\ kcounts[3] = Cardinality({i \in 1..n : 7 <= seq[i] /\ seq[i] < 10})
            /\ kcounts[4] = Cardinality({i \in 1..n : 10 <= seq[i]})
            /\ kcounts[1] + kcounts[2] + kcounts[3] + kcounts[4] = n
            /\ (\A i \in 1..n : seq[i] < 7) => warned

C9_Witness ==
    /\ pc = "done" /\ op = "ks_summary" /\ Len(seq) = MaxK
    /\ \A i \in 1..Len(seq) : seq[i] < 5
    /\ kcounts = <<MaxK, 0, 0, 0>> /\ warned

\* C9 as first stated: a warning when, and only when, a value is bad or very
\* bad; none when every value is below 0.5.
C9_Original ==
    (pc = "done" /\ op = "ks_summary") =>
        /\ kcounts[1] + kcounts[2] + kcounts[3] + kcounts[4] = Len(seq)
        /\ warned <=> \E i \in 1..Len(seq) : seq[i] >= 7

C11_WrapPure ==
    [][op = "wrap_xarray_ufunc" =>
          /\ ufunc_kwargs' = ufunc_kwargs
          /\ func_args' = func_args
          /\ func_kwargs' = func_kwargs
          /\ (calls # <<>> /\ calls' # calls =>
                 calls'[Len(calls')] = calls[Len(calls)])]_vars

\* The axis a valid index ax of an array of ndim axes names.
RequestedAxis(ax, ndim) == IF ax < 0 THEN ndim + ax ELSE ax

\* C12: for every axis in -ndim..ndim-1, axis 0 included, autocov and
\* autocorr return an array of the shape of the input, computed along the
\* axis the index names, so axis=0 and axis=-ndim give the same array.
C12_EveryAxis ==
    (pc = "done" /\ op \in {"autocov", "autocorr"}) =>
        /\ ~Raised(result)
        /\ IF grid = <<>>
           THEN /\ Len(vec) = Len(seq)
                /\ vec = (IF op = "autocov" THEN autocov_1d(seq) ELSE autocorr_1d(seq))
           ELSE /\ Len(gridout) = Len(grid)
                /\ \A r \in 1..Len(grid) : Len(gridout[r]) = Len(grid[r])
                /\ gridout = (IF op = "autocov"
                              THEN autocov_2d(grid, RequestedAxis(axis, 2))
                              ELSE autocorr_2d(grid, RequestedAxis(axis, 2)))

\* The length of the axis the call runs along.
AlongLen == IF grid = <<>> THEN Len(seq) ELSE shape_at(grid, norm_axis(axis, 2))

\* The call got as far as padding its buffer.
Padded == pc = "done" /\ op \in {"autocov", "autocorr"} /\ ~Raised(result)

\* C13: the zero-padded buffer of autocov on a length n is twice the next
\* 5-smooth length that is at least n: a 5-smooth length, at least 2n.
C13_BufferLength ==
    Padded =>
        /\ mt2 = 2 * next_fast_len(AlongLen)
        /\ IsFastLen(mt2)
        /\ mt2 >= 2 * AlongLen

\* A length 7 is padded to 16, though 15 is 5-smooth and at least 14.
C13_Witness == Padded /\ op = "autocov" /\ AlongLen = 7 /\ mt2 = 16 /\ IsFastLen(15)

\* C13 as stated: the buffer length is the smallest 5-smooth length that is
\* at least 2n.
C13_Original ==
    Padded =>
        /\ IsFastLen(mt2)
        /\ mt2 >= 2 * AlongLen
        /\ \A k \in (2 * AlongLen)..(mt2 - 1) : ~IsFastLen(k)

\* `out` is an array of the wrong shape (single output), or is not a tuple
\* of n_output arrays of the right shape (several outputs).
BadOut ==
    IF n_output > 1
    THEN ~(out.kind = "tuple" /\ Len(out.cells) = n_output
                              /\ \A i \in 1..Len(out.cells) : Len(out.cells[i]) = Len(seq))
    ELSE out.kind = "array" /\ Len(out.cells[1]) # Len(seq)

\* C14: a ufunc called with the caller's `out` either returns with every
\* element of `out` holding func of its own element of ary, or raises with
\* `out` as it was; a bad `out` raises TypeError before func is called.
C14_AllOrNothing ==
    [][(op = "ufunc" /\ pc' = "done" /\ out.kind # "None") =>
          /\ IF Raised(result')
             THEN out' = out
             ELSE \A i \in 1..Len(out'.cells) : \A idx \in 1..Len(seq) :
                      out'.cells[i][idx] = func(seq[idx], i)
          /\ (BadOut => result'.kind = "TypeError" /\ func_calls' = 0)]_vars

\* The axes of the input that the call reduces, counted from 1.
ReducedAxes ==
    IF axis_arg.kind = "None" THEN 1..Len(shape)
    ELSE {(IF a < 0 THEN Len(shape) + a ELSE a) + 1 : a \in Range(axis_arg.val)}

\* The input shape with the reduced axes removed (keepdims=False) or set to
\* length 1 (keepdims=True).
RECURSIVE WithoutAxes(_, _, _)
WithoutAxes(sh, axes, i) ==
    IF i > Len(sh) THEN <<>>
    ELSE IF i \in axes THEN WithoutAxes(sh, axes, i + 1)
    ELSE <<sh[i]>> \o WithoutAxes(sh, axes, i + 1)

ReducedShape ==
    IF keepdims THEN [i \in 1..Len(shape) |-> IF i \in ReducedAxes THEN 1 ELSE shape[i]]
    ELSE WithoutAxes(shape, ReducedAxes, 1)

\* The call was made with a weight of zero: b_inv = 0, or b = 0 and no b_inv.
ZeroWeight ==
    /\ pc = "done" /\ op = "logsumexp"
    /\ (b_inv = "0" \/ (b_inv = "None" /\ b_weight = "0"))

\* The same call with the zero weight replaced by 2.
NonZeroCall ==
    IF b_inv = "0" THEN logsumexp(shape, b_weight, "2", axis_arg, keepdims)
    ELSE logsumexp(shape, "2", b_inv, axis_arg, keepdims)

\* C15: logsumexp with a weight of zero does not raise and returns, in the
\* shape of the input with the reduced axes removed or kept at length 1,
\* +infinity everywhere when b_inv = 0 and -infinity everywhere when b = 0
\* without b_inv; the shape is that of the call with a non-zero weight
\* whenever that call returns.
C15_ZeroWeight ==
    ZeroWeight =>
        /\ ~Raised(result)
        /\ result = (IF b_inv = "0" THEN InfResult ELSE NegInfResult)
        /\ res_shape = ReducedShape
        /\ (~Raised(NonZeroCall.result) => res_shape = NonZeroCall.shape)

\* b = 0 without b_inv gives an array of -infinity.
C15_Witness ==
    /\ ZeroWeight /\ b_weight = "0" /\ b_inv = "None"
    /\ result = NegInfResult /\ Len(res_shape) = 2 /\ ~Raised(NonZeroCall.result)

\* C15 as stated: +infinity for either zero weight.
C15_Original ==
    ZeroWeight =>
        /\ ~Raised(result)
        /\ result = InfResult
        /\ (~Raised(NonZeroCall.result) => res_shape = NonZeroCall.shape)

\* C16: with out=None logsumexp returns, for every shape and every axis
\* argument, a result of the input shape with the reduced axes removed
\* (keepdims=False) or set to length 1 (keepdims=True).
C16_ResultShape ==
    (pc = "done" /\ op = "logsumexp") =>
        /\ ~Raised(result)
        /\ res_shape = ReducedShape

====
